---- MODULE Spec2Model ----
(***************************************************************************)
(* Model of app/scripts/upload_to_play_store.py: one run of the script,    *)
(* from argument parsing to process exit.  The remote publishing service,  *)
(* the credential chain and the file system are the environment; every     *)
(* call into them returns or raises nondeterministically.                  *)
(***************************************************************************)
EXTENDS Integers, Sequences, FiniteSets, TLC

VARIABLES
    installed,   \* whether the Google client packages can be imported
    argv,        \* the command line: a record holding the flags that were given
    pc,          \* position of the run in the script
    locals,      \* the Python variables bound so far (name -> value)
    calls,       \* remote publish calls issued so far, in order
    auth,        \* credential-chain calls issued so far, in order
    remote,      \* state of the publishing service
    stdout,      \* the console lines that carry data
    exit_code    \* process exit status, NoExit while running

vars == <<installed, argv, pc, locals, calls, auth, remote, stdout, exit_code>>

(***************************************************************************)
(* Bounds of the environment.                                              *)
(***************************************************************************)
MaxVersionCode == 12
NumEditIds == 2

NoExit == -1

Paths == {"app.aab", "missing.aab", "outputs"}
\* The paths that exist on disk, and those among them that open for reading
\* ("outputs" is a directory).
Files == {"app.aab", "outputs"}
Readable == {"app.aab"}
Packages == {"org.a", "org.b"}
Tracks == {"internal", "alpha", "beta", "production", "Production"}
EditIdName(i) == IF i = 1 THEN "edit-1" ELSE IF i = 2 THEN "edit-2" ELSE "edit-3"
EditIds == {EditIdName(i) : i \in 1..NumEditIds}
VersionCodes == 1..MaxVersionCode

\* What a command line can hold: the three flags of lines 161-163, each with
\* its value; -h/--help, which argparse adds to every parser, with its place
\* on the command line; and an argument the parser rejects, with the error.
Flags == {"aab", "package_name", "track", "help", "rejected"}
FlagValues(f) ==
    CASE f = "aab" -> Paths
      [] f = "package_name" -> Packages
      [] f = "track" -> Tracks
      [] f = "help" -> {"first", "last"}
      [] f = "rejected" -> {"expected one argument", "unrecognized arguments"}

\* A flag left out, or given with one of its values.
FlagChoices(f) == {[k \in {} |-> 0]} \cup {f :> v : v \in FlagValues(f)}

\* Every command line: any subset of Flags, each with a value.
Argvs ==
    { a @@ p @@ t @@ h @@ r :
        a \in FlagChoices("aab"), p \in FlagChoices("package_name"),
        t \in FlagChoices("track"), h \in FlagChoices("help"),
        r \in FlagChoices("rejected") }

(***************************************************************************)
(* Python helpers.                                                         *)
(***************************************************************************)
Bind(env, name, value) == (name :> value) @@ env
Bound(name) == name \in DOMAIN locals
EmptyDict == [k \in {} |-> 0]

Digit(d) ==
    CASE d = 0 -> "0" [] d = 1 -> "1" [] d = 2 -> "2" [] d = 3 -> "3"
      [] d = 4 -> "4" [] d = 5 -> "5" [] d = 6 -> "6" [] d = 7 -> "7"
      [] d = 8 -> "8" [] d = 9 -> "9"

\* The digits least significant first.
RECURSIVE PyStrReversed(_)
PyStrReversed(n) ==
    IF n < 0 THEN <<"-">> \o PyStrReversed(0 - n)
    ELSE IF n < 10 THEN <<Digit(n)>>
    ELSE <<Digit(n % 10)>> \o PyStrReversed(n \div 10)

\* str(n) for an int: its decimal digits, most significant first.
RECURSIVE PyStr(_)
PyStr(n) ==
    IF n < 0 THEN <<"-">> \o PyStr(0 - n)
    ELSE IF n < 10 THEN <<Digit(n)>>
    ELSE PyStr(n \div 10) \o <<Digit(n % 10)>>

\* The track compared without regard to case.
should_hold_ignoring_case(track) == track \in {"production", "Production"}

should_hold_for_manual_review(track) == track = "production"

DefaultTrackProduction == "production"

\* main, line 163: the default of --track.
DefaultTrack == "internal"

Init ==
    /\ installed \in BOOLEAN
    /\ argv \in Argvs
    /\ pc = "import"
    /\ locals = EmptyDict
    /\ calls = <<>>
    /\ auth = <<>>
    /\ remote = [edits |-> {}, bundles |-> {}, tracks |-> {}, committed |-> {}]
    /\ stdout = <<>>
    /\ exit_code = NoExit

SysExit(code) ==
    /\ pc' = "exited"
    /\ exit_code' = code

\* Lines 13-21: without the client packages the script stops at once.
ImportPackages ==
    /\ pc = "import"
    /\ IF installed
       THEN /\ pc' = "parse_args"
            /\ UNCHANGED exit_code
       ELSE SysExit(1)
    /\ UNCHANGED <<installed, argv, locals, calls, auth, remote, stdout>>

\* parse_args, line 165, prints the usage and exits with 0 when it meets
\* -h/--help.  It meets it unless an earlier argument already failed: a flag
\* without its value fails where it stands, while unrecognized arguments are
\* reported only after the whole command line has been read.
HelpShown(a) ==
    /\ "help" \in DOMAIN a
    /\ \/ "rejected" \notin DOMAIN a
       \/ a.rejected = "unrecognized arguments"
       \/ a.help = "first"

\* parse_args, line 165, returns the namespace: no help, no rejected argument,
\* and both flags that lines 161-162 require.
Accepted(a) ==
    /\ "help" \notin DOMAIN a
    /\ "rejected" \notin DOMAIN a
    /\ {"aab", "package_name"} \subseteq DOMAIN a

\* main, lines 160-165: help exits with 0, a command line that is rejected or
\* lacks --aab or --package-name exits with 2.
ParseArgs ==
    /\ pc = "parse_args"
    /\ IF HelpShown(argv)
       THEN /\ SysExit(0)
            /\ UNCHANGED locals
       ELSE IF Accepted(argv)
       THEN /\ locals' = Bind(Bind(Bind(locals,
                    "aab", argv.aab),
                    "package_name", argv.package_name),
                    "track", IF "track" \in DOMAIN argv THEN argv.track ELSE DefaultTrack)
            /\ pc' = "check_aab"
            /\ UNCHANGED exit_code
       ELSE /\ SysExit(2)
            /\ UNCHANGED locals
    /\ UNCHANGED <<installed, argv, calls, auth, remote, stdout>>

\* The existence check left out.
CheckAabSkipped ==
    /\ pc = "check_aab"
    /\ pc' = "default"
    /\ UNCHANGED <<installed, argv, locals, calls, auth, remote, stdout, exit_code>>

\* main, lines 167-171: the artifact must exist before anything else happens.
CheckAab ==
    /\ pc = "check_aab"
    /\ IF locals.aab \in Files
       THEN /\ pc' = "default"
            /\ UNCHANGED exit_code
       ELSE SysExit(1)
    /\ UNCHANGED <<installed, argv, locals, calls, auth, remote, stdout>>

\* A credential object: the attributes it has, among refresh and valid.
Credentials ==
    UNION { { c \in [D -> BOOLEAN] : "refresh" \in D => c["refresh"] }
            : D \in SUBSET {"refresh", "valid"} }

\* Every credential that can be refreshed is refreshed, valid or not.
NeedsRefreshAlways(c) ==
    /\ "refresh" \in DOMAIN c
    /\ "valid" \in DOMAIN c

\* get_credentials, line 36.
NeedsRefresh(c) ==
    /\ "refresh" \in DOMAIN c
    /\ "valid" \in DOMAIN c
    /\ ~c["valid"]

\* get_credentials, lines 27-34 and 45-67: default() returns a credential or
\* raises; any exception ends the process with status 1.
GetCredentialsDefault ==
    /\ pc = "default"
    /\ auth' = Append(auth, "default")
    /\ \/ /\ SysExit(1)
          /\ UNCHANGED locals
       \/ \E c \in Credentials :
            /\ locals' = Bind(locals, "credentials", c)
            /\ pc' = IF NeedsRefresh(c) THEN "refresh" ELSE "build"
            /\ UNCHANGED exit_code
    /\ UNCHANGED <<installed, argv, calls, remote, stdout>>

\* A failed refresh ignored: the run goes on with the credential as it is.
GetCredentialsRefreshIgnored ==
    /\ pc = "refresh"
    /\ auth' = Append(auth, "refresh")
    /\ \/ /\ pc' = "build"
          /\ UNCHANGED <<locals, exit_code>>
       \/ /\ locals' = [locals EXCEPT !["credentials"] = [@ EXCEPT !["valid"] = TRUE]]
          /\ pc' = "build"
          /\ UNCHANGED exit_code
    /\ UNCHANGED <<installed, argv, calls, remote, stdout>>

\* get_credentials, lines 36-43 and 45-67: one refresh of the same object.
GetCredentialsRefresh ==
    /\ pc = "refresh"
    /\ auth' = Append(auth, "refresh")
    /\ \/ /\ SysExit(1)
          /\ UNCHANGED locals
       \/ /\ locals' = [locals EXCEPT !["credentials"] = [@ EXCEPT !["valid"] = TRUE]]
          /\ pc' = "build"
          /\ UNCHANGED exit_code
    /\ UNCHANGED <<installed, argv, calls, remote, stdout>>

\* The failed step tried again.
ExceptHandlerRetry ==
    /\ pc' = pc
    /\ stdout' = Append(stdout, [line |-> "upload_failed"])
    /\ locals' = Bind(locals, "success", FALSE)

\* The whole function run again from its first line.
ExceptHandlerRestart ==
    /\ pc' = "build"
    /\ stdout' = Append(stdout, [line |-> "upload_failed"])
    /\ locals' = Bind(locals, "success", FALSE)

\* The exception swallowed: the function returns True all the same.
ExceptHandlerSwallow ==
    /\ pc' = "main_exit"
    /\ stdout' = Append(stdout, [line |-> "upload_failed"])
    /\ locals' = Bind(locals, "success", TRUE)

\* upload_to_play_store, lines 154-156: the handler of every exception raised
\* inside the try block prints the failure and returns False to main (line 181).
ExceptHandler ==
    /\ pc' = "main_exit"
    /\ stdout' = Append(stdout, [line |-> "upload_failed"])
    /\ locals' = Bind(locals, "success", FALSE)

\* A request object built from the service: it carries the service's credentials.
Request(method, kwargs) ==
    [method |-> method, kwargs |-> kwargs, credentials |-> locals.service.credentials]

\* upload_to_play_store, line 88.
Build ==
    /\ pc = "build"
    /\ \/ /\ ExceptHandler
       \/ /\ locals' = Bind(locals, "service", [credentials |-> locals.credentials])
          /\ pc' = "insert"
          /\ UNCHANGED stdout
    /\ UNCHANGED <<installed, argv, calls, auth, remote, exit_code>>

\* upload_to_play_store, lines 90-95.
EditsInsert ==
    /\ pc = "insert"
    /\ calls' = Append(calls, Request("edits.insert",
                    [body |-> EmptyDict, packageName |-> locals.package_name]))
    /\ \/ /\ ExceptHandler
          /\ UNCHANGED remote
       \/ \E id \in EditIds \ remote.edits : \E edit \in {EmptyDict, [id |-> id]} :
            /\ remote' = [remote EXCEPT !.edits = @ \cup {id}]
            /\ IF "id" \in DOMAIN edit
               THEN /\ locals' = Bind(locals, "edit_id", edit.id)
                    /\ stdout' = Append(stdout, [line |-> "edit_created", value |-> edit.id])
                    /\ pc' = "upload"
               ELSE ExceptHandler
    /\ UNCHANGED <<installed, argv, auth, exit_code>>

\* upload_to_play_store, lines 97-107.  MediaFileUpload opens the file, and
\* raises before the upload request is made when it cannot.
BundlesUpload ==
    /\ pc = "upload"
    /\ IF locals.aab \notin Readable
       THEN /\ ExceptHandler
            /\ UNCHANGED <<calls, remote>>
       ELSE
        /\ calls' = Append(calls, Request("edits.bundles.upload",
                        [packageName |-> locals.package_name,
                         editId |-> locals.edit_id,
                         media_body |-> [filename |-> locals.aab,
                                         mimetype |-> "application/octet-stream"]]))
        /\ \/ /\ ExceptHandler
              /\ UNCHANGED remote
           \/ \E v \in VersionCodes :
              \E bundle_response \in {EmptyDict, [versionCode |-> v]} :
                /\ remote' = [remote EXCEPT !.bundles = @ \cup
                                {[editId |-> locals.edit_id, versionCode |-> v]}]
                /\ IF "versionCode" \in DOMAIN bundle_response
                   THEN /\ locals' = Bind(locals, "version_code",
                                          bundle_response.versionCode)
                        /\ stdout' = Append(stdout, [line |-> "version_code",
                                        value |-> PyStr(bundle_response.versionCode)])
                        /\ pc' = "update"
                   ELSE ExceptHandler
    /\ UNCHANGED <<installed, argv, auth, exit_code>>

\* The release left as a draft.
TrackBodyDraft(track, version_code) ==
    [track |-> track,
     releases |-> << [versionCodes |-> << PyStr(version_code) >>,
                      status |-> "draft"] >>]

\* upload_to_play_store, lines 115-121: the body of the track update.
TrackBody(track, version_code) ==
    [track |-> track,
     releases |-> << [versionCodes |-> << PyStr(version_code) >>,
                      status |-> "completed"] >>]

\* upload_to_play_store, lines 109-124.
TracksUpdate ==
    /\ pc = "update"
    /\ LET body == TrackBody(locals.track, locals.version_code) IN
       /\ calls' = Append(calls, Request("edits.tracks.update",
                    [packageName |-> locals.package_name,
                     editId |-> locals.edit_id,
                     track |-> locals.track,
                     body |-> body]))
       /\ \/ /\ ExceptHandler
             /\ UNCHANGED remote
          \/ \E track_response \in {EmptyDict, body} :
               /\ remote' = [remote EXCEPT !.tracks = @ \cup
                               {[editId |-> locals.edit_id, track |-> locals.track,
                                 releases |-> body.releases]}]
               /\ IF "track" \in DOMAIN track_response
                  THEN /\ stdout' = Append(stdout, [line |-> "assigned",
                                       value |-> track_response.track])
                       /\ pc' = "commit"
                       /\ UNCHANGED locals
                  ELSE ExceptHandler
    /\ UNCHANGED <<installed, argv, auth, exit_code>>

\* The package name and the edit identifier passed in each other's place.
CommitKwargsSwapped(package_name, edit_id, track) ==
    IF should_hold_for_manual_review(track)
    THEN [packageName |-> edit_id, editId |-> package_name,
          changesNotSentForReview |-> TRUE]
    ELSE [packageName |-> edit_id, editId |-> package_name]

\* upload_to_play_store, lines 132-147: the keyword arguments of the commit.
CommitKwargs(package_name, edit_id, track) ==
    IF should_hold_for_manual_review(track)
    THEN [packageName |-> package_name, editId |-> edit_id,
          changesNotSentForReview |-> TRUE]
    ELSE [packageName |-> package_name, editId |-> edit_id]

\* upload_to_play_store, lines 126-152.
EditsCommit ==
    /\ pc = "commit"
    /\ LET kwargs == CommitKwargs(locals.package_name, locals.edit_id, locals.track) IN
       /\ calls' = Append(calls, Request("edits.commit", kwargs))
       /\ \/ /\ ExceptHandler
             /\ UNCHANGED remote
          \/ \E commit_response \in {EmptyDict, [id |-> locals.edit_id]} :
               /\ remote' = [remote EXCEPT !.committed = @ \cup
                               {[editId |-> kwargs.editId,
                                 held |-> "changesNotSentForReview" \in DOMAIN kwargs]}]
               /\ IF "id" \in DOMAIN commit_response
                  THEN /\ stdout' = Append(stdout, [line |-> "upload_completed",
                                       value |-> commit_response.id])
                       /\ locals' = Bind(locals, "success", TRUE)
                       /\ pc' = "main_exit"
                  ELSE ExceptHandler
    /\ UNCHANGED <<installed, argv, auth, exit_code>>

\* A failed upload sends main back to fetch credentials and try again.
MainExitRetry ==
    /\ pc = "main_exit"
    /\ IF locals.success
       THEN SysExit(0)
       ELSE /\ pc' = "default"
            /\ UNCHANGED exit_code
    /\ UNCHANGED <<installed, argv, locals, calls, auth, remote, stdout>>

\* The status 0 whatever upload_to_play_store returned.
MainExitAlwaysZero ==
    /\ pc = "main_exit"
    /\ SysExit(0)
    /\ UNCHANGED <<installed, argv, locals, calls, auth, remote, stdout>>

\* main, lines 183-188.
MainExit ==
    /\ pc = "main_exit"
    /\ IF locals.success THEN SysExit(0) ELSE SysExit(1)
    /\ UNCHANGED <<installed, argv, locals, calls, auth, remote, stdout>>

Next ==
    \/ ImportPackages
    \/ ParseArgs
    \/ CheckAab
    \/ GetCredentialsDefault
    \/ GetCredentialsRefresh
    \/ Build
    \/ EditsInsert
    \/ BundlesUpload
    \/ TracksUpdate
    \/ EditsCommit
    \/ MainExit


Spec == Init /\ [][Next]_vars

\* Every call of the run returns or raises, so the script always takes its
\* next step: the calls block, and nothing else can hold the process up.
FairSpec == Spec /\ WF_vars(Next)

(***************************************************************************)
(* Vocabulary of the properties.                                           *)
(***************************************************************************)
Methods == <<"edits.insert", "edits.bundles.upload", "edits.tracks.update", "edits.commit">>
Range(seq) == {seq[i] : i \in DOMAIN seq}
CallsOf(method) == {i \in DOMAIN calls : calls[i].method = method}
Exited == pc = "exited"
ArgsGiven == {"aab", "package_name"} \subseteq DOMAIN argv
\* parse_args has returned: the run holds an artifact path.
Parsed == Bound("aab")
\* An exception was caught inside the publish sequence.
Failed == Bound("success") /\ ~locals.success
HasFlag(kwargs) ==
    /\ "changesNotSentForReview" \in DOMAIN kwargs
    /\ kwargs.changesNotSentForReview = TRUE

DigitValue(ch) ==
    CASE ch = "0" -> 0 [] ch = "1" -> 1 [] ch = "2" -> 2 [] ch = "3" -> 3
      [] ch = "4" -> 4 [] ch = "5" -> 5 [] ch = "6" -> 6 [] ch = "7" -> 7
      [] ch = "8" -> 8 [] ch = "9" -> 9
\* The number a string of decimal digits denotes.
RECURSIVE Denotes(_)
Denotes(digits) ==
    IF digits = <<>> THEN 0
    ELSE 10 * Denotes(SubSeq(digits, 1, Len(digits) - 1)) + DigitValue(digits[Len(digits)])

(***************************************************************************)
(* C1: once a publish step has failed, the calls issued are exactly the    *)
(* steps up to the failing one, no further remote call is ever issued and  *)
(* the remote state no longer changes, and the run exits with code 1.      *)
(***************************************************************************)
C1_FailureHalts ==
    /\ [](Failed =>
            /\ pc \in {"main_exit", "exited"}
            /\ Exited => exit_code = 1
            /\ Len(calls) <= Len(Methods)
            /\ \A i \in DOMAIN calls : calls[i].method = Methods[i])
    /\ [][Failed => (calls' = calls /\ remote' = remote)]_vars

\* The upload step failed remotely and the run ended with 1 after two calls.
C1_Witness ==
    /\ Exited /\ exit_code = 1 /\ Failed
    /\ Len(calls) = 2
    /\ remote.edits # {} /\ remote.bundles = {}

(***************************************************************************)
(* C2: a commit call carries changesNotSentForReview=True if and only if   *)
(* the requested track is exactly "production".                            *)
(***************************************************************************)
C2_HoldIffProduction ==
    \A i \in CallsOf("edits.commit") :
        /\ HasFlag(calls[i].kwargs) <=> (locals.track = "production")
        /\ ~HasFlag(calls[i].kwargs) => "changesNotSentForReview" \notin DOMAIN calls[i].kwargs
        /\ "track" \in DOMAIN argv => locals.track = argv.track

\* A production commit with the flag has been issued.
C2_Witness ==
    /\ "track" \in DOMAIN argv /\ argv.track = "production"
    /\ \E i \in CallsOf("edits.commit") : HasFlag(calls[i].kwargs)

\* A commit for a track that differs from "production" only in case.
C2_WitnessOther ==
    /\ "track" \in DOMAIN argv /\ argv.track = "Production"
    /\ \E i \in CallsOf("edits.commit") : ~HasFlag(calls[i].kwargs)

\* C3 as stated: a run given both required flags and an artifact path that
\* is not on disk ends with exit code 1, without any credential or remote call.
C3_MissingArtifactExitsOne ==
    (installed /\ ArgsGiven /\ argv.aab \notin Files /\ Exited) =>
        /\ exit_code = 1
        /\ auth = <<>>
        /\ calls = <<>>

(***************************************************************************)
(* C3 amended: with an artifact path that is not on disk the run never     *)
(* calls the credential chain and issues no remote publish call; when its  *)
(* command line is accepted it ends with exit code 1 right after the       *)
(* existence check; when the parser reads -h/--help it ends with 0, and    *)
(* when the parser does not accept the command line it ends with 2.        *)
(***************************************************************************)
C3_MissingArtifact ==
    /\ (Parsed /\ locals.aab \notin Files) =>
            (pc = "check_aab" \/ (Exited /\ exit_code = 1))
    /\ (Accepted(argv) /\ argv.aab \notin Files /\ Exited) => exit_code = 1
    /\ ("aab" \in DOMAIN argv /\ argv.aab \notin Files) =>
        /\ pc \in {"import", "parse_args", "check_aab", "exited"}
        /\ auth = <<>>
        /\ calls = <<>>
        /\ remote.edits = {}
        /\ (Exited /\ installed /\ HelpShown(argv)) => exit_code = 0
        /\ (Exited /\ installed /\ ~HelpShown(argv) /\ ~Accepted(argv)) => exit_code = 2
        /\ (Exited /\ ~installed) => exit_code = 1

\* The existence check itself ended the run.
C3_Witness ==
    /\ installed /\ Parsed
    /\ Accepted(argv) /\ argv.aab \notin Files
    /\ Exited /\ exit_code = 1

(***************************************************************************)
(* C4 as stated: every finished run has created exactly one edit           *)
(* transaction, has committed it or ended with exit code 1, and has issued *)
(* each of the four calls at most once.                                    *)
(***************************************************************************)
C4_ExactlyOneEdit ==
    (Exited /\ installed /\ Accepted(argv)) =>
        /\ Cardinality(remote.edits) = 1
        /\ remote.committed # {} \/ exit_code = 1
        /\ \A m \in Range(Methods) : Cardinality(CallsOf(m)) <= 1

(***************************************************************************)
(* C4 amended: a run creates at most one edit transaction, and exactly one *)
(* once its create call has been applied; a finished run whose command     *)
(* line was accepted has committed that edit or ended with exit code 1; a  *)
(* committed edit holds the uploaded bundle and the track assignment; each *)
(* of the four calls is issued at most once.                               *)
(***************************************************************************)
C4_AtMostOneEdit ==
    /\ Cardinality(remote.edits) <= 1
    /\ Bound("edit_id") => remote.edits = {locals.edit_id}
    /\ CallsOf("edits.insert") = {} => remote.edits = {}
    /\ \A m \in Range(Methods) : Cardinality(CallsOf(m)) <= 1
    /\ Cardinality(remote.committed) <= 1
    /\ \A c \in remote.committed :
            /\ c.editId \in remote.edits
            /\ \E b \in remote.bundles : b.editId = c.editId
            /\ \E t \in remote.tracks : t.editId = c.editId
    /\ Exited =>
            /\ remote.edits # {} => (remote.committed # {} \/ exit_code = 1)
            /\ (Parsed \/ Accepted(argv)) => (remote.committed # {} \/ exit_code = 1)
            /\ (Parsed /\ exit_code = 0) => Cardinality(remote.edits) = 1

\* A run that created its edit but failed before the commit.
C4_Witness ==
    /\ Exited /\ exit_code = 1
    /\ Cardinality(remote.edits) = 1
    /\ remote.tracks # {}
    /\ remote.committed = {}

(***************************************************************************)
(* C5: on full success the single release of the track assignment holds    *)
(* exactly one version code, which denotes the value the upload step       *)
(* returned in this run, and the run reports that same version code.       *)
(***************************************************************************)
C5_VersionCode ==
    (Exited /\ exit_code = 0 /\ Parsed) =>
        /\ Cardinality(remote.bundles) = 1
        /\ \A b \in remote.bundles : \A i \in CallsOf("edits.tracks.update") :
             LET releases == calls[i].kwargs.body.releases IN
             /\ Len(releases) = 1
             /\ Len(releases[1].versionCodes) = 1
             /\ Denotes(releases[1].versionCodes[1]) = b.versionCode
             /\ \E j \in DOMAIN stdout :
                  /\ stdout[j].line = "version_code"
                  /\ stdout[j].value = releases[1].versionCodes[1]
             /\ \A j \in DOMAIN stdout :
                  stdout[j].line = "version_code" => Denotes(stdout[j].value) = b.versionCode
        /\ CallsOf("edits.tracks.update") # {}

\* A successful run whose version code has two digits.
C5_Witness ==
    /\ Exited /\ exit_code = 0
    /\ \E b \in remote.bundles : b.versionCode >= 10

(***************************************************************************)
(* C6: exit code 0 only when the artifact exists, a credential was         *)
(* obtained and the four calls create, upload, assign, commit were issued  *)
(* in that order and each applied; exit code 1 when the artifact is        *)
(* missing, when credentials fail and when the publish sequence fails.     *)
(***************************************************************************)
FullSuccess ==
    /\ Accepted(argv) /\ argv.aab \in Files
    /\ Bound("credentials")
    /\ [i \in DOMAIN calls |-> calls[i].method] = Methods
    /\ remote.edits # {} /\ remote.bundles # {}
    /\ remote.tracks # {} /\ remote.committed # {}

CredentialFailure ==
    \/ auth # <<>> /\ ~Bound("credentials")
    \/ /\ "refresh" \in Range(auth)
       /\ Bound("credentials")
       /\ ~locals.credentials["valid"]

PublishFailure == \E j \in DOMAIN stdout : stdout[j].line = "upload_failed"

\* C6 as stated: exit code 0 only on full success, exit code 1 on a missing
\* artifact, on credential failure and on a failure of the publish sequence.
C6_ExitCodesAsStated ==
    Exited =>
        /\ exit_code = 0 => FullSuccess
        /\ (Parsed /\ locals.aab \notin Files) => exit_code = 1
        /\ CredentialFailure => exit_code = 1
        /\ PublishFailure => exit_code = 1

(***************************************************************************)
(* C6 amended: exit code 0 only on full success or when the parser reads   *)
(* -h/--help, in which case the usage is all the run does (no credential   *)
(* call, no remote call); exit code 2 only for a command line the parser   *)
(* does not accept; once the command line is accepted the run exits with   *)
(* 0 or 1, and with 1 when the artifact is missing, when credentials fail  *)
(* and when the publish sequence fails.                                    *)
(***************************************************************************)
C6_ExitCodes ==
    Exited =>
        /\ exit_code \in {0, 1, 2}
        /\ exit_code = 0 =>
            \/ FullSuccess
            \/ /\ HelpShown(argv) /\ ~Parsed
               /\ auth = <<>> /\ calls = <<>> /\ remote.edits = {}
        /\ exit_code = 2 => (~Accepted(argv) /\ ~Parsed /\ auth = <<>> /\ calls = <<>>)
        /\ (installed /\ ~HelpShown(argv) /\ ~Accepted(argv)) => exit_code = 2
        /\ (Parsed /\ locals.aab \notin Files) => exit_code = 1
        /\ CredentialFailure => exit_code = 1
        /\ PublishFailure => exit_code = 1
        /\ (Accepted(argv) /\ ~FullSuccess) => exit_code = 1

C6_Witness == Exited /\ exit_code = 0 /\ FullSuccess

(***************************************************************************)
(* C7: when the credential chain does not resolve, or a credential that    *)
(* reports itself not valid cannot be refreshed, the run is over with exit *)
(* code 1: the chain was asked once, a refresh tried at most once, and no  *)
(* remote publish call was issued and no edit transaction created.         *)
(***************************************************************************)
C7_CredentialFailureFatal ==
    CredentialFailure =>
        /\ Exited /\ exit_code = 1
        /\ auth \in {<<"default">>, <<"default", "refresh">>}
        /\ calls = <<>>
        /\ remote.edits = {}
        /\ ~Bound("service")

\* A credential was located, reported itself not valid, and its refresh failed.
C7_Witness ==
    /\ Exited /\ exit_code = 1
    /\ auth = <<"default", "refresh">>
    /\ Bound("credentials") /\ ~locals.credentials["valid"]

(***************************************************************************)
(* C8: with --track omitted the track-assignment call names "internal",    *)
(* in its track argument and in its body, and the commit call carries no   *)
(* changesNotSentForReview argument.                                       *)
(***************************************************************************)
C8_DefaultTrack ==
    "track" \notin DOMAIN argv =>
        /\ Bound("track") => locals.track = "internal"
        /\ \A i \in CallsOf("edits.tracks.update") :
              /\ calls[i].kwargs.track = "internal"
              /\ calls[i].kwargs.body.track = "internal"
        /\ \A i \in CallsOf("edits.commit") :
              "changesNotSentForReview" \notin DOMAIN calls[i].kwargs

\* A run without --track that went as far as the commit call.
C8_Witness ==
    /\ "track" \notin DOMAIN argv
    /\ CallsOf("edits.tracks.update") # {}
    /\ CallsOf("edits.commit") # {}

(***************************************************************************)
(* C9: the publish state only moves Start -> EditCreated -> BundleUploaded *)
(* -> TrackAssigned -> Committed, or to Failed from a non-terminal state;  *)
(* upload is issued only after create was applied, assign only after       *)
(* upload, commit only after assign; from Committed and Failed no remote   *)
(* call is issued and the state does not change.                           *)
(***************************************************************************)
PublishState ==
    IF Bound("success") THEN (IF locals.success THEN "Committed" ELSE "Failed")
    ELSE CASE pc = "upload" -> "EditCreated"
           [] pc = "update" -> "BundleUploaded"
           [] pc = "commit" -> "TrackAssigned"
           [] OTHER -> "Start"

PublishMoves ==
    { <<"Start", "EditCreated">>, <<"EditCreated", "BundleUploaded">>,
      <<"BundleUploaded", "TrackAssigned">>, <<"TrackAssigned", "Committed">>,
      <<"Start", "Failed">>, <<"EditCreated", "Failed">>,
      <<"BundleUploaded", "Failed">>, <<"TrackAssigned", "Failed">> }

C9_StrictlyLinear ==
    /\ [][\/ PublishState' = PublishState
          \/ <<PublishState, PublishState'>> \in PublishMoves]_vars
    /\ [][(PublishState \in {"Committed", "Failed"}) =>
            (PublishState' = PublishState /\ calls' = calls)]_vars
    /\ [][calls' # calls =>
            /\ Len(calls') = Len(calls) + 1
            /\ LET call == calls'[Len(calls')] IN
               /\ call.method = "edits.insert" => PublishState = "Start"
               /\ call.method = "edits.bundles.upload" =>
                    (PublishState = "EditCreated" /\ call.kwargs.editId \in remote.edits)
               /\ call.method = "edits.tracks.update" =>
                    /\ PublishState = "BundleUploaded"
                    /\ \E b \in remote.bundles : b.editId = call.kwargs.editId
               /\ call.method = "edits.commit" =>
                    /\ PublishState = "TrackAssigned"
                    /\ \E t \in remote.tracks : t.editId = call.kwargs.editId]_vars
    /\ [](/\ PublishState = "EditCreated" => Len(calls) = 1
          /\ PublishState = "BundleUploaded" => Len(calls) = 2
          /\ PublishState = "TrackAssigned" => Len(calls) = 3
          /\ PublishState = "Committed" => (Len(calls) = 4 /\ remote.committed # {}))

\* The run went through every state up to Committed and has ended.
C9_Witness ==
    /\ PublishState = "Committed"
    /\ Exited
    /\ Len(calls) = 4

(***************************************************************************)
(* C10: a run that exits with code 1 has not committed its edit            *)
(* transaction on the remote service.                                      *)
(***************************************************************************)
C10_FailedMeansNotCommitted ==
    (Exited /\ exit_code = 1) => remote.committed = {}

(***************************************************************************)
(* C11: the upload, track-assignment and commit calls each carry the edit  *)
(* identifier the create call of this run returned and the package         *)
(* identifier the caller gave; both are the same in every call of the run. *)
(***************************************************************************)
C11_SameEditAndPackage ==
    /\ \A i \in DOMAIN calls : calls[i].kwargs.packageName = argv.package_name
    /\ \A i \in DOMAIN calls :
         calls[i].method # "edits.insert" =>
            /\ remote.edits = {calls[i].kwargs.editId}
            /\ \E j \in DOMAIN stdout :
                 /\ stdout[j].line = "edit_created"
                 /\ stdout[j].value = calls[i].kwargs.editId
    /\ \A i, j \in DOMAIN calls :
         (calls[i].method # "edits.insert" /\ calls[j].method # "edits.insert") =>
            calls[i].kwargs.editId = calls[j].kwargs.editId

\* All three calls that follow the create call have been issued.
C11_Witness ==
    /\ CallsOf("edits.bundles.upload") # {}
    /\ CallsOf("edits.tracks.update") # {}
    /\ CallsOf("edits.commit") # {}

(***************************************************************************)
(* C12: the track-assignment call names the requested track both as its    *)
(* track argument and in its body, and the body holds exactly one release, *)
(* with status "completed" and exactly one version code, that of the       *)
(* uploaded bundle.                                                        *)
(***************************************************************************)
RequestedTrack == IF "track" \in DOMAIN argv THEN argv.track ELSE "internal"

C12_TrackAssignment ==
    \A i \in CallsOf("edits.tracks.update") :
        LET kwargs == calls[i].kwargs IN
        /\ kwargs.track = RequestedTrack
        /\ DOMAIN kwargs.body = {"track", "releases"}
        /\ kwargs.body.track = RequestedTrack
        /\ Len(kwargs.body.releases) = 1
        /\ DOMAIN kwargs.body.releases[1] = {"versionCodes", "status"}
        /\ kwargs.body.releases[1].status = "completed"
        /\ Len(kwargs.body.releases[1].versionCodes) = 1
        /\ \E b \in remote.bundles :
             Denotes(kwargs.body.releases[1].versionCodes[1]) = b.versionCode

\* A track assignment for a track given on the command line.
C12_Witness ==
    /\ "track" \in DOMAIN argv /\ argv.track = "beta"
    /\ CallsOf("edits.tracks.update") # {}

(***************************************************************************)
(* C13 as stated: every finished run has asked the credential chain        *)
(* exactly once and tried at most one refresh, and every publish call      *)
(* carries the credential of the run.                                      *)
(***************************************************************************)
AuthOf(kind) == {i \in DOMAIN auth : auth[i] = kind}

C13_ExactlyOncePerRun ==
    (Exited /\ installed /\ Accepted(argv)) =>
        /\ Cardinality(AuthOf("default")) = 1
        /\ Cardinality(AuthOf("refresh")) <= 1
        /\ \A i \in DOMAIN calls : calls[i].credentials = locals.credentials

(***************************************************************************)
(* C13 amended: the credential chain is asked at most once per run, and    *)
(* exactly once in every run that passes the artifact-existence check; it  *)
(* is asked after that check and before the first remote publish call; a   *)
(* refresh is tried at most once, after the chain resolved and only for a  *)
(* credential that reports itself not valid; every publish call carries    *)
(* the one credential of the run.                                          *)
(***************************************************************************)
C13_CredentialsOnce ==
    /\ [](/\ Cardinality(AuthOf("default")) <= 1
          /\ Cardinality(AuthOf("refresh")) <= 1
          /\ auth # <<>> =>
                (auth[1] = "default" /\ Bound("aab") /\ locals.aab \in Files)
          /\ (Bound("aab") /\ locals.aab \in Files /\ pc \notin {"check_aab", "default"})
                => Cardinality(AuthOf("default")) = 1
          /\ calls # <<>> => (AuthOf("default") # {} /\ Bound("credentials"))
          /\ \A i \in DOMAIN calls : calls[i].credentials = locals.credentials)
    /\ [][auth' # auth => calls = <<>> /\ calls' = <<>>]_vars
    /\ [][(Len(auth') > Len(auth) /\ auth'[Len(auth')] = "refresh") =>
            /\ Bound("credentials")
            /\ "valid" \in DOMAIN locals.credentials
            /\ ~locals.credentials["valid"]]_vars
    /\ [][Bound("service") => (Bound("credentials")' /\ locals'.credentials = locals.credentials)]_vars

\* A refreshed credential was used for all four publish calls.
C13_Witness ==
    /\ auth = <<"default", "refresh">>
    /\ Len(calls) = 4
    /\ \A i \in DOMAIN calls : calls[i].credentials = locals.credentials

\* C14 as stated: with both required flags given, a run that has ended has
\* exit code 0 or 1 and has issued at most four remote publish calls.
C14_ZeroOrOneGivenFlags ==
    (ArgsGiven /\ Exited) => (exit_code \in {0, 1} /\ Len(calls) <= 4)

(***************************************************************************)
(* C14 amended: every run ends, provided every credential and remote call  *)
(* returns or raises; with both required flags given and no argument the   *)
(* parser rejects it ends with exit code 0 or 1, and a rejected command    *)
(* line ends it with exit code 2 before any call; a run issues at most     *)
(* four remote publish calls, leaves Committed and Failed by exiting at    *)
(* its next step, and takes no step once it has exited.                    *)
(***************************************************************************)
C14_Terminates ==
    /\ <>Exited
    /\ (ArgsGiven /\ "rejected" \notin DOMAIN argv) => <>(Exited /\ exit_code \in {0, 1})
    /\ [](Len(calls) <= 4)
    /\ [](Exited => exit_code \in {0, 1, 2})
    /\ []((Exited /\ exit_code = 2) => (~Accepted(argv) /\ auth = <<>> /\ calls = <<>>))
    /\ []((Exited /\ installed /\ ~HelpShown(argv) /\ ~Accepted(argv)) => exit_code = 2)
    /\ [][(PublishState \in {"Committed", "Failed"}) => (Exited' /\ calls' = calls)]_vars
    /\ [][~Exited]_vars

\* A run with both flags that made all four calls and has exited.
C14_Witness ==
    /\ Accepted(argv)
    /\ Exited /\ exit_code \in {0, 1}
    /\ Len(calls) = 4

====
